---- MODULE Spec2Model ----
(***************************************************************************)
(* A model of python-domain-equations: the identifier model (naming.py),   *)
(* PropertyList / NamedProperty / Module (namedproperty.py) and the        *)
(* PropertyGraph builder (property_graph.py).                              *)
(*                                                                         *)
(* Strings are sequences of code points, so that validation, camel-casing, *)
(* pluralisation and the class-name order are computed as the code         *)
(* computes them (Python compares str by code point).  None is <<>>: the   *)
(* program never uses an empty module name, plural or class name where     *)
(* None is also possible.                                                  *)
(***************************************************************************)
EXTENDS Integers, Sequences, FiniteSets, TLC

None == <<>>

\* ------------------------------------------------------------------------
\* bounds of the model
\* ------------------------------------------------------------------------
\* registrations (N, R, T) and evaluations allowed after the last clear()
MaxOps == 2
\* connect() calls of one evaluation (an edge may be called more than once)
MaxCalls == 3
\* add() calls on one stand-alone PropertyList
MaxAdds == 3
\* connect() calls of the term evaluated before the generators are used
MaxGenEdges == 3
MaxGenMissing == 1
MaxWordLen == 3

\* ------------------------------------------------------------------------
\* str helpers
\* ------------------------------------------------------------------------
\* 'a' <= c <= 'z'
IsLower(c) == c >= 97 /\ c <= 122

\* str.upper() of one character of the alphabet in use
Upper(c) == IF IsLower(c) THEN c - 32 ELSE c

\* s < t for Python str: lexicographic by code point, a proper prefix first
RECURSIVE StrLess(_, _)
StrLess(s, t) ==
    IF t = <<>> THEN FALSE
    ELSE IF s = <<>> THEN TRUE
    ELSE IF Head(s) # Head(t) THEN Head(s) < Head(t)
    ELSE StrLess(Tail(s), Tail(t))

\* word.split("_"): the pieces between underscores, empty pieces included
RECURSIVE Split(_, _)
Split(word, piece) ==
    IF word = <<>> THEN <<piece>>
    ELSE IF Head(word) = 95 THEN <<piece>> \o Split(Tail(word), <<>>)
    ELSE Split(Tail(word), Append(piece, Head(word)))

\* re.match(r'[a-z][a-z_]*', name) is not None.  re.match anchors the
\* pattern at the start of the string only: it succeeds as soon as the
\* first character is a lowercase letter, whatever follows the matched
\* prefix.
re_match(name) == Len(name) >= 1 /\ IsLower(name[1])

\* the whole of s is [a-z][a-z_]*  (what re.fullmatch would accept)
FullMatch(s) ==
    /\ Len(s) >= 1
    /\ IsLower(s[1])
    /\ \A i \in 1..Len(s) : IsLower(s[i]) \/ s[i] = 95

\* ------------------------------------------------------------------------
\* naming.py
\* ------------------------------------------------------------------------
Naming_capitalize(word) ==
    IF word = <<>> THEN word ELSE <<Upper(Head(word))>> \o Tail(word)

RECURSIVE JoinCapitalized(_)
JoinCapitalized(pieces) ==
    IF pieces = <<>> THEN <<>>
    ELSE Naming_capitalize(Head(pieces)) \o JoinCapitalized(Tail(pieces))

Naming_camel_case(word) == JoinCapitalized(Split(word, <<>>))

\* Naming.plural: 'x' 120, 's' 115, 'y' 121, vowels a e i o u, 'h' 104,
\* 'c' 99, 'e' 101
Naming_plural(word) ==
    LET n == Len(word) IN
    IF word[n] \in {120, 115} THEN word \o <<101, 115>>
    ELSE IF n >= 2 /\ word[n] = 121
         THEN IF word[n - 1] \in {97, 101, 105, 111, 117}
              THEN word \o <<115>>
              ELSE SubSeq(word, 1, n - 1) \o <<101, 115>>
    ELSE IF n >= 2 /\ word[n] = 104 /\ word[n - 1] \in {115, 99}
         THEN word \o <<101, 115>>
    ELSE word \o <<115>>

\* name.replace('_', ' ')
Docstring(name) == [i \in 1..Len(name) |-> IF name[i] = 95 THEN 32 ELSE name[i]]

\* TypeDescriptor(class_name, module_name): no validation
TypeDescriptor(class_name, module_name) ==
    [type |-> "TypeDescriptor", module_name |-> module_name,
     class_name |-> class_name, value_name |-> None,
     plural_value_name |-> None, docstring_name |-> None,
     item_class_name |-> None]

\* TypeDescriptor.class_name: the fully qualified name
ClassName(d) ==
    IF d.module_name # None THEN d.module_name \o <<46>> \o d.class_name
    ELSE d.class_name

\* Naming.__init__ raises ValueError unless this holds
NamingAccepts(name, plural) ==
    /\ re_match(name)
    /\ plural # None => re_match(plural)

\* Naming(name, plural, module_name), once accepted
Naming(name, plural, module_name) ==
    [type |-> "Naming", module_name |-> module_name,
     class_name |-> Naming_camel_case(name), value_name |-> name,
     plural_value_name |-> IF plural # None THEN plural ELSE Naming_plural(name),
     docstring_name |-> Docstring(name),
     item_class_name |-> None]

\* ContainerNaming(naming, module_name): "_container" appended to the
\* item's value name
ContainerNaming(naming, module_name) ==
    LET name == naming.value_name
                  \o <<95, 99, 111, 110, 116, 97, 105, 110, 101, 114>>
    IN [Naming(name, None, module_name) EXCEPT
          !.type = "ContainerNaming",
          !.item_class_name = ClassName(naming)]

\* TypeDescriptor.__eq__ / __hash__: by fully qualified class name
TypeDescriptor_eq(d, e) == ClassName(d) = ClassName(e)

\* ------------------------------------------------------------------------
\* namedproperty.py
\* ------------------------------------------------------------------------
\* a set that tells its members apart by all their fields, not by
\* __eq__ and __hash__
PropertyList_add_by_identity(pl, naming) == pl \cup {naming}

\* PropertyList._properties is a Python set of descriptors: add() of an
\* element equal (by class name) to a member leaves the set as it was
PropertyList_add(pl, naming) ==
    IF \E e \in pl : TypeDescriptor_eq(e, naming) THEN pl ELSE pl \cup {naming}

\* the member with the least class name
MinByClassName(pl) ==
    CHOOSE d \in pl : \A e \in pl : ~StrLess(ClassName(e), ClassName(d))

\* list(...).sort(key = class_name), a selection of the least remaining
RECURSIVE SortByClassName(_)
SortByClassName(pl) ==
    IF pl = {} THEN <<>>
    ELSE LET d == MinByClassName(pl)
         IN <<d>> \o SortByClassName(pl \ {d})

\* PropertyList.properties
PropertyList_properties(pl) == SortByClassName(pl)

\* PropertyList.__eq__: list equality, elements compared with __eq__
PropertyList_eq(p, q) ==
    LET a == PropertyList_properties(p)
        b == PropertyList_properties(q)
    IN /\ Len(a) = Len(b)
       /\ \A i \in 1..Len(a) : TypeDescriptor_eq(a[i], b[i])

\* NamedProperty(naming, property_list); property_list is None or a
\* PropertyList, kept as [list |-> ...] so that an empty list is not None
NamedProperty(naming, property_list) ==
    [naming |-> naming, property_list |-> property_list]

NoList == [none |-> TRUE]
SomeList(pl) == [none |-> FALSE, list |-> pl]

\* NamedProperty.properties
NamedProperty_properties(np) ==
    IF np.property_list.none THEN <<>>
    ELSE PropertyList_properties(np.property_list.list)

\* Module(module_name, property_list, used_named_properties): the lookup
\* _named_propertie_by_name is kept as the sequence it is built from (the
\* class names of `properties` are distinct)
Module(module_name, property_list, used_named_properties) ==
    [module_name |-> module_name, property_list |-> property_list,
     named_properties |-> used_named_properties]

\* Module.get_named_property(class_name): the dict built from the list
\* keeps the last NamedProperty of a class name; None when there is none
Module_get_named_property(module, class_name) ==
    LET nps == module.named_properties
        at == {j \in 1..Len(nps) : ClassName(nps[j].naming) = class_name}
    IN IF at = {} THEN None
       ELSE nps[CHOOSE j \in at : \A l \in at : l <= j]

\* Module.properties
Module_properties(module) == PropertyList_properties(module.property_list)

\* ------------------------------------------------------------------------
\* Python dict: insertion ordered, a sequence of [k, v]
\* ------------------------------------------------------------------------
DictHas(d, k) == \E i \in 1..Len(d) : d[i].k = k

DictGet(d, k) == d[CHOOSE i \in 1..Len(d) : d[i].k = k].v

\* d[k] = v: an existing key keeps its position
DictSet(d, k, v) ==
    IF DictHas(d, k)
    THEN [i \in 1..Len(d) |-> IF d[i].k = k THEN [k |-> k, v |-> v] ELSE d[i]]
    ELSE Append(d, [k |-> k, v |-> v])

DictKeys(d) == {d[i].k : i \in 1..Len(d)}

\* keys = list(d.keys()); keys.sort()
RECURSIVE SortStr(_)
SortStr(S) ==
    IF S = {} THEN <<>>
    ELSE LET m == CHOOSE x \in S : \A y \in S : y = x \/ StrLess(x, y)
         IN <<m>> \o SortStr(S \ {m})

\* ------------------------------------------------------------------------
\* property_graph.py: the state of one PropertyGraph and of its caller
\* ------------------------------------------------------------------------
VARIABLES
    namings_by_class_name,    \* dict: class name -> descriptor
    properties_by_class_name, \* dict: class name -> PropertyList (a function)
    it,                       \* the generator the caller holds, if any
    out,                      \* what that generator has yielded so far
    err,                      \* the exception the last call raised, or "none"
    nops,                     \* registrations and evaluations since clear()
    last,                     \* the last factory call and what it replaced
    prev,                     \* the consumption completed just before `it`
    pl,                       \* two stand-alone PropertyLists
    log,                      \* the add() calls made on each of them
    ret                       \* what the last call of a generator of
                              \* interfaces or of schema text returned

graph_vars == <<namings_by_class_name, properties_by_class_name>>
caller_vars == <<it, out, err, nops, last, prev>>
list_vars == <<pl, log>>
vars == <<namings_by_class_name, properties_by_class_name, it, out, err,
          nops, last, prev, pl, log, ret>>

\* properties_by_class_name.get(class_name, None)
AdjGet(adj, class_name) ==
    IF class_name \in DOMAIN adj THEN SomeList(adj[class_name]) ELSE NoList

\* properties_by_class_name[class_name] = component_list
AdjSet(adj, class_name, component_list) ==
    [k \in (DOMAIN adj) \cup {class_name} |->
        IF k = class_name THEN component_list ELSE adj[k]]

EmptyAdj == [k \in {} |-> {}]

\* _update_naming with the check of line 414 lost: the Naming made from
\* the name is stored whether or not its class name is registered
update_naming_overwriting(nm, name) ==
    IF DictHas(nm, name)
    THEN [nm |-> nm, ret |-> DictGet(nm, name), ok |-> TRUE]
    ELSE IF ~NamingAccepts(name, None)
    THEN [nm |-> nm, ret |-> None, ok |-> FALSE]
    ELSE LET naming == Naming(name, None, None)
         IN [nm |-> DictSet(nm, ClassName(naming), naming),
             ret |-> naming, ok |-> TRUE]

\* PropertyGraph._update_naming(name): the namings afterwards, the
\* descriptor returned, and ok = FALSE when Naming(name) raised ValueError
update_naming(nm, name) ==
    IF DictHas(nm, name)
    THEN [nm |-> nm, ret |-> DictGet(nm, name), ok |-> TRUE]
    ELSE IF ~NamingAccepts(name, None)
    THEN [nm |-> nm, ret |-> None, ok |-> FALSE]
    ELSE LET naming == Naming(name, None, None)
             cn == ClassName(naming)
         IN IF DictHas(nm, cn)
            THEN [nm |-> nm, ret |-> DictGet(nm, cn), ok |-> TRUE]
            ELSE [nm |-> DictSet(nm, cn, naming), ret |-> naming, ok |-> TRUE]

\* _connect that makes the sink's Naming without registering it
connect_sink_unregistered(g, source_name, sink_name) ==
    LET source == update_naming(g.nm, source_name) IN
    IF ~source.ok THEN [nm |-> source.nm, adj |-> g.adj, ok |-> FALSE]
    ELSE
    LET sink == update_naming(source.nm, sink_name) IN
    IF ~sink.ok THEN [nm |-> source.nm, adj |-> g.adj, ok |-> FALSE]
    ELSE
    LET cn == ClassName(source.ret)
        had == AdjGet(g.adj, cn)
        component_list == IF had.none THEN {} ELSE had.list
    IN [nm |-> source.nm,
        adj |-> AdjSet(g.adj, cn, PropertyList_add(component_list, sink.ret)),
        ok |-> TRUE]

\* _connect that files the list under the name it was given for the
\* source, not under the class name of the source's naming
connect_by_source_name(g, source_name, sink_name) ==
    LET source == update_naming(g.nm, source_name) IN
    IF ~source.ok THEN [nm |-> source.nm, adj |-> g.adj, ok |-> FALSE]
    ELSE
    LET sink == update_naming(source.nm, sink_name) IN
    IF ~sink.ok THEN [nm |-> sink.nm, adj |-> g.adj, ok |-> FALSE]
    ELSE
    LET had == AdjGet(g.adj, source_name)
        component_list == IF had.none THEN {} ELSE had.list
    IN [nm |-> sink.nm,
        adj |-> AdjSet(g.adj, source_name,
                       PropertyList_add(component_list, sink.ret)),
        ok |-> TRUE]

\* PropertyGraph._connect(source_name, sink_name) on g = [nm, adj, ok];
\* an exception leaves what was done before it
connect(g, source_name, sink_name) ==
    LET source == update_naming(g.nm, source_name) IN
    IF ~source.ok THEN [nm |-> source.nm, adj |-> g.adj, ok |-> FALSE]
    ELSE
    LET sink == update_naming(source.nm, sink_name) IN
    IF ~sink.ok THEN [nm |-> sink.nm, adj |-> g.adj, ok |-> FALSE]
    ELSE
    LET cn == ClassName(source.ret)
        had == AdjGet(g.adj, cn)
        component_list == IF had.none THEN {} ELSE had.list
    IN [nm |-> sink.nm,
        adj |-> AdjSet(g.adj, cn, PropertyList_add(component_list, sink.ret)),
        ok |-> TRUE]

\* (O * term * O).evaluate(): the algebra calls connect(source, sink) for
\* the edges of the term, here in the order `calls`; the first exception
\* ends the evaluation
RECURSIVE evaluate(_, _)
evaluate(g, calls) ==
    IF calls = <<>> \/ ~g.ok THEN g
    ELSE evaluate(connect(g, Head(calls)[1], Head(calls)[2]), Tail(calls))

\* type(v) of a value of properties_by_class_name: _connect stores
\* PropertyLists there and nothing else does
TypeOfValue(v) == "PropertyList"

\* the comparison of line 391 turned round: every entry is dropped
KeepEntry_dropping(v) == TypeOfValue(v) = "Naming"

\* get_properties_from keeps the entries with type(v) != Naming
KeepEntry(v) == TypeOfValue(v) # "Naming"

\* the dict get_properties_from rebuilds before it evaluates
get_properties_from_filter(adj) ==
    LET kept == {k \in DOMAIN adj : KeepEntry(adj[k])}
    IN [k \in kept |-> adj[k]]

\* ------------------------------------------------------------------------
\* the generators behind properties, get_properties_from, buildin_types
\* and modules.  A generator's body runs when the caller asks for the next
\* item, not when the accessor is called.
\* ------------------------------------------------------------------------
NoTerm == [leaves |-> {}, edges |-> {}]

NoIt == [kind |-> "none", pc |-> "done", clean |-> TRUE, term |-> NoTerm,
         keys |-> <<>>, pos |-> 0, used |-> 0, detached |-> FALSE,
         snap |-> <<>>, mods |-> <<>>]

NewIt(kind, term) == [NoIt EXCEPT !.kind = kind, !.pc = "new", !.term = term]

\* the loop of `properties` from its current key to the next yield:
\* namings_by_class_name[class_name] raises KeyError for a key that is
\* gone, a TypeDescriptor is skipped
RECURSIVE properties_advance(_, _, _)
properties_advance(nm, adj, keys) ==
    IF keys = <<>> THEN [status |-> "stop", keys |-> <<>>, item |-> None]
    ELSE LET class_name == Head(keys) IN
         IF ~DictHas(nm, class_name)
         THEN [status |-> "KeyError", keys |-> <<>>, item |-> None]
         ELSE LET naming == DictGet(nm, class_name) IN
              IF naming.type = "TypeDescriptor"
              THEN properties_advance(nm, adj, Tail(keys))
              ELSE [status |-> "yield", keys |-> Tail(keys),
                    item |-> NamedProperty(naming, AdjGet(adj, class_name))]

\* the keys as the dict holds them, keys.sort() left out
properties_keys_unsorted(nm) == [i \in 1..Len(nm) |-> nm[i].k]

\* keys = list(self.namings_by_class_name.keys()); keys.sort()
properties_keys(nm) == SortStr(DictKeys(nm))

\* list(self.properties): the whole sequence, read in one go
RECURSIVE properties_rest(_, _, _)
properties_rest(nm, adj, keys) ==
    LET r == properties_advance(nm, adj, keys) IN
    IF r.status = "yield" THEN <<r.item>> \o properties_rest(nm, adj, r.keys)
    ELSE <<>>

properties_list(nm, adj) == properties_rest(nm, adj, properties_keys(nm))

\* the test of line 360 turned round: the namings that are no scalars
RECURSIVE buildin_types_advance_others(_, _, _)
buildin_types_advance_others(d, pos, used) ==
    IF Len(d) # used THEN [status |-> "RuntimeError", pos |-> pos, item |-> None]
    ELSE IF pos > Len(d) THEN [status |-> "stop", pos |-> pos, item |-> None]
    ELSE IF d[pos].v.type # "TypeDescriptor"
         THEN [status |-> "yield", pos |-> pos + 1, item |-> d[pos].v]
         ELSE buildin_types_advance_others(d, pos + 1, used)

\* the loop of buildin_types over d.values() from position pos: the dict
\* iterator raises RuntimeError when the dict's size is no longer the one
\* it started with
RECURSIVE buildin_types_advance(_, _, _)
buildin_types_advance(d, pos, used) ==
    IF Len(d) # used THEN [status |-> "RuntimeError", pos |-> pos, item |-> None]
    ELSE IF pos > Len(d) THEN [status |-> "stop", pos |-> pos, item |-> None]
    ELSE IF d[pos].v.type = "TypeDescriptor"
         THEN [status |-> "yield", pos |-> pos + 1, item |-> d[pos].v]
         ELSE buildin_types_advance(d, pos + 1, used)

\* the first loop of `modules` without the `continue` of line 374: the
\* namings of no module are grouped as well
RECURSIVE modules_group_with_none(_, _, _)
modules_group_with_none(d, pos, modules) ==
    IF pos > Len(d) THEN modules
    ELSE LET naming == d[pos].v IN
         IF naming.type = "TypeDescriptor"
         THEN modules_group_with_none(d, pos + 1, modules)
         ELSE LET had == IF DictHas(modules, naming.module_name)
                         THEN DictGet(modules, naming.module_name) ELSE {}
              IN modules_group_with_none(d, pos + 1,
                     DictSet(modules, naming.module_name,
                             PropertyList_add(had, naming)))

\* the first loop of `modules`: the PropertyList of each module name, in
\* the order the names are first met
RECURSIVE modules_group(_, _, _)
modules_group(d, pos, modules) ==
    IF pos > Len(d) THEN modules
    ELSE LET naming == d[pos].v IN
         IF naming.type = "TypeDescriptor" \/ naming.module_name = None
         THEN modules_group(d, pos + 1, modules)
         ELSE LET had == IF DictHas(modules, naming.module_name)
                         THEN DictGet(modules, naming.module_name) ELSE {}
              IN modules_group(d, pos + 1,
                     DictSet(modules, naming.module_name,
                             PropertyList_add(had, naming)))

\* the Modules `modules` yields
modules_list(nm, adj) ==
    LET modules == modules_group(nm, 1, <<>>)
        properties == properties_list(nm, adj)
    IN [i \in 1..Len(modules) |->
          Module(modules[i].k, modules[i].v, properties)]

\* ------------------------------------------------------------------------
\* interface_generator.py and PropertyGraph.get_abstract_classes
\* ------------------------------------------------------------------------
\* Naming.interface_name: "I" + self._class_name, the class name without
\* the module
Naming_interface_name(naming) == <<73>> \o naming.class_name

\* InterfaceGenerator.get_class_template plus what is set on it: the
\* abstract method names and the documented property of each name
ClassTemplate(naming, abstractmethods, attrs) ==
    [name |-> Naming_interface_name(naming),
     abstractmethods |-> abstractmethods, attrs |-> attrs]

\* the loop of generate_abstract_class: setattr(template, value_name, p)
\* for each sub-property in turn, a later one replacing an earlier one of
\* the same name
RECURSIVE generate_abstract_class_attrs(_, _, _)
generate_abstract_class_attrs(naming, subs, attrs) ==
    IF subs = <<>> THEN attrs
    ELSE generate_abstract_class_attrs(naming, Tail(subs),
             DictSet(attrs, Head(subs).value_name,
                     [the |-> Head(subs).docstring_name,
                      of_the |-> naming.docstring_name]))

\* a template on which line 78 never ran: no name is required
generate_abstract_class_nothing_required(class_naming) ==
    LET subs == NamedProperty_properties(class_naming) IN
    IF \E i \in 1..Len(subs) : subs[i].type = "TypeDescriptor"
    THEN [status |-> "AttributeError", template |-> None]
    ELSE [status |-> "none",
          template |-> ClassTemplate(class_naming.naming, {},
                          generate_abstract_class_attrs(class_naming.naming,
                                                        subs, <<>>))]

\* InterfaceGenerator.generate_abstract_class(class_naming): a
\* TypeDescriptor has no value_name, reading it raises AttributeError
generate_abstract_class(class_naming) ==
    LET subs == NamedProperty_properties(class_naming) IN
    IF \E i \in 1..Len(subs) : subs[i].type = "TypeDescriptor"
    THEN [status |-> "AttributeError", template |-> None]
    ELSE [status |-> "none",
          template |-> ClassTemplate(class_naming.naming,
                          {subs[i].value_name : i \in 1..Len(subs)},
                          generate_abstract_class_attrs(class_naming.naming,
                                                        subs, <<>>))]

\* InterfaceGenerator.generate_abstract_container(class_naming,
\* item_naming): a TypeDescriptor has no plural_value_name
generate_abstract_container(class_naming, item_naming) ==
    IF item_naming.type = "TypeDescriptor"
    THEN [status |-> "AttributeError", template |-> None]
    ELSE LET items_name == item_naming.plural_value_name IN
         [status |-> "none",
          template |-> ClassTemplate(class_naming.naming, {items_name},
                          <<[k |-> items_name,
                             v |-> [the |-> item_naming.docstring_name,
                                    of_the |-> class_naming.naming.docstring_name]]>>)]

\* Python's check of template.__abstractmethods__ when a class derived
\* from the template is instantiated: object.__new__ raises TypeError
\* naming, sorted, the abstract names the class does not override.  It is
\* made for a class whose instances object.__new__ creates (`plain`: the
\* template is the only base, as in class Speed(ISpeed)); a class that has
\* another base with a __new__ of its own (class Speed(ISpeed,
\* types.SimpleNamespace)) is instantiated without it.
abstract_check(template, furnished, plain) ==
    LET missing == template.abstractmethods \ furnished IN
    IF plain /\ missing # {}
    THEN [status |-> "TypeError", names |-> SortStr(missing)]
    ELSE [status |-> "none", names |-> <<>>]

\* the loop of get_abstract_classes over self.properties;
\* namings_by_class_name[item_class_name] raises KeyError for an item
\* that is not registered
RECURSIVE get_abstract_classes_loop(_, _, _)
get_abstract_classes_loop(nm, nodes, types_dict) ==
    IF nodes = <<>> THEN [status |-> "none", types_dict |-> types_dict]
    ELSE LET class_definition == Head(nodes)
             naming == class_definition.naming
         IN IF naming.type = "ContainerNaming" /\ ~DictHas(nm, naming.item_class_name)
            THEN [status |-> "KeyError", types_dict |-> None]
            ELSE LET r == IF naming.type = "ContainerNaming"
                          THEN generate_abstract_container(class_definition,
                                   DictGet(nm, naming.item_class_name))
                          ELSE generate_abstract_class(class_definition)
                 IN IF r.status # "none"
                    THEN [status |-> r.status, types_dict |-> None]
                    ELSE get_abstract_classes_loop(nm, Tail(nodes),
                             DictSet(types_dict, Naming_interface_name(naming),
                                     r.template))

\* ------------------------------------------------------------------------
\* protobuf_generator.py.  A line of the file content is kept as the
\* format it is made with and the values put into it.
\* ------------------------------------------------------------------------
\* 'syntax = "proto2";'
Line_syntax == [line |-> "syntax", type |-> None, name |-> None, number |-> 0]
\* 'package {};'
Line_package(name) ==
    [line |-> "package", type |-> None, name |-> name, number |-> 0]
\* 'import {};'
Line_import(name) ==
    [line |-> "import", type |-> None, name |-> name, number |-> 0]
\* 'message {} {{'
Line_message(name) ==
    [line |-> "message", type |-> None, name |-> name, number |-> 0]
\* '    required {} {} = {};'
Line_required(type, name, number) ==
    [line |-> "required", type |-> type, name |-> name, number |-> number]
\* '    repeated {} {} = 1;'
Line_repeated(type, name) ==
    [line |-> "repeated", type |-> type, name |-> name, number |-> 1]
\* '}'
Line_close == [line |-> "close", type |-> None, name |-> None, number |-> 0]

\* TypeDescriptor.moduleless_class_name
moduleless_class_name(d) == d.class_name

\* a test that holds only of a definition with one sub-property, a
\* TypeDescriptor
is_value_property_single(property_definition) ==
    LET subs == NamedProperty_properties(property_definition)
    IN Len(subs) = 1 /\ subs[1].type = "TypeDescriptor"

\* is_value_property(property_definition): some sub-property is a plain
\* TypeDescriptor
is_value_property(property_definition) ==
    LET subs == NamedProperty_properties(property_definition)
    IN \E i \in 1..Len(subs) : subs[i].type = "TypeDescriptor"

\* get_value_property_type(property_definition): the first of them
get_value_property_type(property_definition) ==
    LET subs == NamedProperty_properties(property_definition)
        at == {i \in 1..Len(subs) : subs[i].type = "TypeDescriptor"}
    IN IF at = {} THEN None
       ELSE subs[CHOOSE i \in at : \A j \in at : i <= j]

\* lines 58-62: the module names of the sub-properties of the members
sub_modules_of(module) ==
    LET members == Module_properties(module) IN
    UNION { LET property_definition ==
                    Module_get_named_property(module, ClassName(members[m]))
                subs == IF property_definition = None THEN <<>>
                        ELSE NamedProperty_properties(property_definition)
            IN {subs[i].module_name :
                  i \in {j \in 1..Len(subs) : subs[j].module_name # None}}
          : m \in 1..Len(members) }

\* import lines without the test of line 67: the module's own name is
\* imported as well
RECURSIVE import_lines_with_own(_, _)
import_lines_with_own(module, sub_modules) ==
    IF sub_modules = <<>> THEN <<>>
    ELSE <<Line_import(Head(sub_modules))>>
         \o import_lines_with_own(module, Tail(sub_modules))

\* lines 64-67: sorted, one import line for each but the module's own name
RECURSIVE import_lines(_, _)
import_lines(module, sub_modules) ==
    IF sub_modules = <<>> THEN <<>>
    ELSE (IF Head(sub_modules) # module.module_name
          THEN <<Line_import(Head(sub_modules))>> ELSE <<>>)
         \o import_lines(module, Tail(sub_modules))

\* lines 80-101: the field lines of an ordinary member, sub-property i of
\* subs onwards
RECURSIVE field_lines(_, _, _)
field_lines(module, subs, i) ==
    IF i > Len(subs) THEN <<>>
    ELSE LET sub_property_naming == subs[i]
             sub_property_definition ==
                 Module_get_named_property(module, ClassName(sub_property_naming))
         IN (IF sub_property_definition = None THEN <<>>
             ELSE IF is_value_property(sub_property_definition)
             THEN <<Line_required(
                      ClassName(get_value_property_type(sub_property_definition)),
                      sub_property_naming.value_name, i)>>
             ELSE <<Line_required(moduleless_class_name(sub_property_naming),
                                  sub_property_naming.value_name, i)>>)
            \o field_lines(module, subs, i + 1)

\* lines 74-103: an ordinary member
ordinary_lines(module, named_property) ==
    LET property_definition ==
            Module_get_named_property(module, ClassName(named_property))
    IN IF property_definition = None \/ is_value_property(property_definition)
       THEN [status |-> "none", lines |-> <<>>]
       ELSE [status |-> "none",
             lines |-> <<Line_message(moduleless_class_name(named_property))>>
                       \o field_lines(module,
                              NamedProperty_properties(property_definition), 1)
                       \o <<Line_close>>]

\* the one field of a container, made from sub_property_naming; None has
\* no attribute `properties`
container_field(module, named_property, sub_property_naming) ==
    LET sub_property_definition ==
            Module_get_named_property(module, ClassName(sub_property_naming))
    IN IF sub_property_definition = None
       THEN [status |-> "AttributeError", lines |-> <<>>]
       ELSE [status |-> "none",
             lines |->
               <<Line_message(moduleless_class_name(named_property)),
                 IF is_value_property(sub_property_definition)
                 THEN Line_repeated(
                        ClassName(get_value_property_type(sub_property_definition)),
                        sub_property_naming.plural_value_name)
                 ELSE Line_repeated(moduleless_class_name(sub_property_naming),
                                    sub_property_naming.plural_value_name),
                 Line_close>>]

\* a container branch that makes the field from the item the container
\* was made of, whatever its sub-properties are
container_lines_of_item(module, named_property) ==
    LET item_definition ==
            Module_get_named_property(module, named_property.item_class_name)
    IN IF item_definition = None
       THEN [status |-> "AttributeError", lines |-> <<>>]
       ELSE container_field(module, named_property, item_definition.naming)

\* lines 105-122: a container member; properties[0] of an empty list
\* raises IndexError
container_lines(module, named_property) ==
    LET property_definition ==
            Module_get_named_property(module, ClassName(named_property))
    IN IF property_definition = None
       THEN [status |-> "AttributeError", lines |-> <<>>]
       ELSE LET subs == NamedProperty_properties(property_definition) IN
            IF subs = <<>> THEN [status |-> "IndexError", lines |-> <<>>]
            ELSE container_field(module, named_property, subs[1])

\* lines 72-122 for one member: the lines it adds, or the exception
member_lines(module, named_property) ==
    IF named_property.type = "Naming"
    THEN ordinary_lines(module, named_property)
    ELSE IF named_property.type = "ContainerNaming"
    THEN container_lines(module, named_property)
    ELSE [status |-> "none", lines |-> <<>>]

\* the loop of line 72 over the members from position m
RECURSIVE message_lines(_, _, _)
message_lines(module, members, m) ==
    IF m > Len(members) THEN [status |-> "none", lines |-> <<>>]
    ELSE LET r == member_lines(module, members[m]) IN
         IF r.status # "none" THEN r
         ELSE LET rest == message_lines(module, members, m + 1)
              IN [status |-> rest.status, lines |-> r.lines \o rest.lines]

\* ProtobufGenerator.get_property_file_content(module): the lines joined
\* by "\n", or the exception raised
get_property_file_content(module) ==
    LET head == <<Line_syntax>>
                \o (IF module.module_name # None
                    THEN <<Line_package(module.module_name)>> ELSE <<>>)
                \o import_lines(module, SortStr(sub_modules_of(module)))
        body == message_lines(module, Module_properties(module), 1)
    IN IF body.status # "none"
       THEN [status |-> body.status, file_content |-> None]
       ELSE [status |-> "none", file_content |-> head \o body.lines]

\* ------------------------------------------------------------------------
\* what the caller passes in
\* ------------------------------------------------------------------------
str_a == <<97>>
str_a_ == <<97, 95>>
str_aB == <<97, 66>>
str_b == <<98>>
str_ax == <<97, 120>>
str_1 == <<49>>
str_m == <<109>>
str_A == <<65>>

\* N(name, plural, module_name)
NamingArgs ==
    { <<str_a, None, None>>, <<str_a_, None, None>>, <<str_aB, None, None>>,
      <<str_1, None, None>>, <<str_a, None, str_m>>, <<str_a, str_ax, None>>,
      <<str_a, str_1, None>> }

\* R(name, container_module, item_module)
RepeatedArgs ==
    { <<str_a, None, None>>, <<str_a, None, str_m>>, <<str_1, None, None>> }

\* T(class_name, module_name): "a" is to the graph what 'bytes' is in the
\* documentation, a scalar whose class name is also a valid leaf name
BuildinArgs == { <<str_a, None>>, <<str_A, None>> }

\* the names C(...) is called with
TermLeaves == { str_a, str_a_, str_b, str_1 }

\* A term of the algebra, by what (O * term * O).evaluate() makes of it:
\* the leaves it is written with and the edges source -> sink it denotes.
\* Two terms the algebra holds equal denote the same edges.
Term(leaves, edges) == [leaves |-> leaves, edges |-> edges]

\* C(x);  C(x) + C(y);  C(x) * C(y);  C(x) * C(y) + C(y) * C(x);
\* C(x) * (C(y) + C(z));  (C(y) + C(z)) * C(x)
Terms ==
    LET L == TermLeaves IN
    {Term({x}, {}) : x \in L}
    \cup {Term({x, y}, {}) : <<x, y>> \in {p \in L \X L : p[1] # p[2]}}
    \cup {Term({x, y}, {<<x, y>>}) : <<x, y>> \in {p \in L \X L : p[1] # p[2]}}
    \cup {Term({x, y}, {<<x, y>>, <<y, x>>}) :
            <<x, y>> \in {p \in L \X L : p[1] # p[2]}}
    \cup {Term({x, y, z}, {<<x, y>>, <<x, z>>}) :
            <<x, y, z>> \in {p \in L \X L \X L :
                               p[1] # p[2] /\ p[1] # p[3] /\ p[2] # p[3]}}
    \cup {Term({x, y, z}, {<<y, x>>, <<z, x>>}) :
            <<x, y, z>> \in {p \in L \X L \X L :
                               p[1] # p[2] /\ p[1] # p[3] /\ p[2] # p[3]}}

\* the orders in which evaluate() may call connect for the edges E: every
\* edge at least once, MaxCalls calls at most
Orders(E) ==
    UNION { { calls \in [1..k -> E] : {calls[i] : i \in 1..k} = E } :
            k \in Cardinality(E)..MaxCalls }

\* the graphs handed to the generators of interfaces and of schema text:
\* what T, N and R register, in this order ...
str_s == <<115>>
str_c == <<99>>
str_k == <<107>>
str_d == <<100>>
str_j == <<106>>

GenRegistrations ==
    << TypeDescriptor(str_s, None),
       Naming(str_a, None, str_m),
       Naming(str_b, None, str_m),
       Naming(str_c, None, str_k),
       ContainerNaming(Naming(str_a, None, str_m), str_k),
       Naming(str_d, None, str_j) >>

\* ... and the connect() calls of the term evaluated after them; the
\* leaves are what the factories return, C(class_name)
GenCallbacks ==
    LET s == ClassName(GenRegistrations[1])
        mA == ClassName(GenRegistrations[2])
        mB == ClassName(GenRegistrations[3])
        kC == ClassName(GenRegistrations[4])
        kAContainer == ClassName(GenRegistrations[5])
        jD == ClassName(GenRegistrations[6])
    IN << <<kAContainer, mA>>, <<mA, s>>, <<mA, mB>>, <<kC, mA>>,
          <<kC, mB>>, <<mB, s>>, <<kAContainer, kC>>, <<kAContainer, s>>,
          <<kC, jD>> >>

\* the members of seq at the positions in S, in their order
RECURSIVE Pick(_, _, _)
Pick(seq, S, i) ==
    IF i > Len(seq) THEN <<>>
    ELSE (IF i \in S THEN <<seq[i]>> ELSE <<>>) \o Pick(seq, S, i + 1)

\* namings_by_class_name[naming.class_name] = naming for each of regs
RECURSIVE RegisterAll(_, _)
RegisterAll(nm, regs) ==
    IF regs = <<>> THEN nm
    ELSE RegisterAll(DictSet(nm, ClassName(Head(regs)), Head(regs)), Tail(regs))

\* the elements add() is called with on a stand-alone PropertyList
ListElements ==
    { Naming(str_a, None, None), Naming(str_a_, None, None),
      Naming(str_a, None, str_m), TypeDescriptor(str_a, None),
      ContainerNaming(Naming(str_a, None, None), None) }

\* ------------------------------------------------------------------------
\* Init: PropertyGraph() after __init__, which calls clear()
\* ------------------------------------------------------------------------
NoLast == [op |-> "init", desc |-> None, replaced |-> None]
NoPrev == [kind |-> "none", term |-> NoTerm, out |-> <<>>,
           nm |-> <<>>, adj |-> EmptyAdj]

Init ==
    /\ namings_by_class_name = <<>>
    /\ properties_by_class_name = EmptyAdj
    /\ it = NoIt
    /\ out = <<>>
    /\ err = "none"
    /\ nops = 0
    /\ last = NoLast
    /\ prev = NoPrev
    /\ pl = [i \in 1..2 |-> {}]
    /\ log = [i \in 1..2 |-> <<>>]
    /\ ret = None

\* InitGen: a graph after some registrations and the evaluation of a term
InitGen ==
    \E S \in {R \in SUBSET (1..Len(GenRegistrations)) :
                 Len(GenRegistrations) - Cardinality(R) <= MaxGenMissing} :
    \E E \in {F \in SUBSET (1..Len(GenCallbacks)) : Cardinality(F) <= MaxGenEdges} :
        LET g == evaluate([nm |-> RegisterAll(<<>>, Pick(GenRegistrations, S, 1)),
                           adj |-> EmptyAdj, ok |-> TRUE],
                          Pick(GenCallbacks, E, 1))
        IN /\ namings_by_class_name = g.nm
           /\ properties_by_class_name = g.adj
           /\ it = NoIt
           /\ out = <<>>
           /\ err = "none"
           /\ nops = 0
           /\ last = NoLast
           /\ prev = NoPrev
           /\ pl = [i \in 1..2 |-> {}]
           /\ log = [i \in 1..2 |-> <<>>]
           /\ ret = None

\* a mutation made while the caller holds a generator: a live one is no
\* longer read undisturbed; a finished one is let go of
Touched(i) ==
    IF i.pc = "done" THEN NoIt
    ELSE IF i.pc = "new" THEN [i EXCEPT !.clean = FALSE]
    ELSE [i EXCEPT !.clean = FALSE, !.term = NoTerm]

\* a factory that leaves a descriptor already registered under the class
\* name where it is
Register_keeping(op, naming) ==
    LET cn == ClassName(naming) IN
    /\ namings_by_class_name' = IF DictHas(namings_by_class_name, cn)
                                THEN namings_by_class_name
                                ELSE DictSet(namings_by_class_name, cn, naming)
    /\ last' = [op |-> op, desc |-> naming,
                replaced |-> IF DictHas(namings_by_class_name, cn)
                             THEN DictGet(namings_by_class_name, cn) ELSE None]
    /\ err' = "none"
    /\ nops' = nops + 1

\* namings_by_class_name[naming.class_name] = naming, by a factory `op`
Register(op, naming) ==
    LET cn == ClassName(naming) IN
    /\ namings_by_class_name' = DictSet(namings_by_class_name, cn, naming)
    /\ last' = [op |-> op, desc |-> naming,
                replaced |-> IF DictHas(namings_by_class_name, cn)
                             THEN DictGet(namings_by_class_name, cn) ELSE None]
    /\ err' = "none"
    /\ nops' = nops + 1

\* a factory whose Naming(...) raised ValueError
Rejected(op) ==
    /\ namings_by_class_name' = namings_by_class_name
    /\ last' = [op |-> op, desc |-> None, replaced |-> None]
    /\ err' = "ValueError"
    /\ nops' = nops

\* N: PropertyGraph.__init__.naming_getter
naming_getter(name, plural, module_name) ==
    /\ nops < MaxOps
    /\ IF NamingAccepts(name, plural)
       THEN Register("N", Naming(name, plural, module_name))
       ELSE Rejected("N")
    /\ it' = Touched(it)
    /\ out' = IF it.pc = "done" THEN <<>> ELSE out
    /\ prev' = NoPrev
    /\ UNCHANGED <<properties_by_class_name, pl, log, ret>>

\* R: PropertyGraph.__init__.repeated
repeated(name, container_module, item_module) ==
    /\ nops < MaxOps
    /\ IF NamingAccepts(name, None)
       THEN Register("R", ContainerNaming(Naming(name, None, item_module),
                                          container_module))
       ELSE Rejected("R")
    /\ it' = Touched(it)
    /\ out' = IF it.pc = "done" THEN <<>> ELSE out
    /\ prev' = NoPrev
    /\ UNCHANGED <<properties_by_class_name, pl, log, ret>>

\* T: PropertyGraph.__init__.buildin_getter
buildin_getter(class_name, module_name) ==
    /\ nops < MaxOps
    /\ Register("T", TypeDescriptor(class_name, module_name))
    /\ it' = Touched(it)
    /\ out' = IF it.pc = "done" THEN <<>> ELSE out
    /\ prev' = NoPrev
    /\ UNCHANGED <<properties_by_class_name, pl, log, ret>>

\* PropertyGraph.clear: both dicts are replaced by new, empty ones; a dict
\* iterator the caller still holds keeps the old dict
clear ==
    /\ namings_by_class_name' = <<>>
    /\ properties_by_class_name' = EmptyAdj
    /\ it' = IF it.kind = "buildin_types" /\ it.pc = "running" /\ ~it.detached
             THEN [it EXCEPT !.clean = FALSE, !.detached = TRUE,
                             !.snap = namings_by_class_name]
             ELSE Touched(it)
    /\ nops' = 0
    /\ err' = "none"
    /\ last' = [op |-> "clear", desc |-> None, replaced |-> None]
    /\ out' = IF it.pc = "done" THEN <<>> ELSE out
    /\ prev' = NoPrev
    /\ UNCHANGED <<pl, log, ret>>

\* the caller asks an accessor for a sequence: a generator is made, and
\* nothing of its body has run yet.  `prev` keeps the consumption of the
\* same sequence that the caller has just completed, when nothing came
\* between.
Call(kind, term) ==
    /\ it' = NewIt(kind, term)
    /\ out' = <<>>
    /\ err' = "none"
    /\ prev' = IF it.kind = kind /\ it.term = term /\ it.pc = "done"
                  /\ it.clean /\ err = "none" /\ last.op = "next"
               THEN [kind |-> it.kind, term |-> it.term, out |-> out,
                     nm |-> namings_by_class_name,
                     adj |-> properties_by_class_name]
               ELSE NoPrev
    /\ last' = [op |-> "call", desc |-> None, replaced |-> None]
    /\ UNCHANGED <<namings_by_class_name, properties_by_class_name, nops,
                   pl, log, ret>>

\* PropertyGraph.get_properties_from(term); the call is made while an
\* evaluation is still within the bound
get_properties_from(term) ==
    /\ nops < MaxOps
    /\ Call("get_properties_from", term)

\* PropertyGraph.properties
properties == Call("properties", NoTerm)

\* PropertyGraph.buildin_types
buildin_types == Call("buildin_types", NoTerm)

\* PropertyGraph.modules
modules == Call("modules", NoTerm)

\* what one next() on the generator leaves: r.status is "yield", "stop"
\* (StopIteration) or the exception that ended the generator
Stepped(r, i) ==
    /\ it' = IF r.status = "yield" THEN [i EXCEPT !.pc = "running"]
             ELSE [i EXCEPT !.pc = "done", !.keys = <<>>, !.mods = <<>>]
    /\ out' = IF r.status = "yield" THEN Append(out, r.item) ELSE out
    /\ err' = IF r.status \in {"yield", "stop"} THEN "none" ELSE r.status
    /\ last' = [op |-> "next", desc |-> None, replaced |-> None]
    /\ prev' = prev
    /\ UNCHANGED <<pl, log, ret>>

\* next() on the generator of get_properties_from that has not started:
\* the dict is rebuilt, the term evaluated, and `yield from
\* self.properties` runs to its first yield
next_get_properties_from ==
    /\ it.kind = "get_properties_from" /\ it.pc = "new"
    /\ nops < MaxOps
    /\ \E calls \in Orders(it.term.edges) :
         LET g == evaluate([nm |-> namings_by_class_name,
                            adj |-> get_properties_from_filter(
                                        properties_by_class_name),
                            ok |-> TRUE], calls)
             r == IF g.ok
                  THEN properties_advance(g.nm, g.adj, properties_keys(g.nm))
                  ELSE [status |-> "ValueError", keys |-> <<>>, item |-> None]
         IN /\ namings_by_class_name' = g.nm
            /\ properties_by_class_name' = g.adj
            /\ Stepped(r, [it EXCEPT !.keys = r.keys])
    /\ nops' = nops + 1

\* next() on the generator of properties that has not started
next_properties_first ==
    /\ it.kind = "properties" /\ it.pc = "new"
    /\ LET r == properties_advance(namings_by_class_name,
                                   properties_by_class_name,
                                   properties_keys(namings_by_class_name))
       IN Stepped(r, [it EXCEPT !.keys = r.keys])
    /\ UNCHANGED <<namings_by_class_name, properties_by_class_name, nops>>

\* next() on a started generator of properties or get_properties_from:
\* the loop over the keys sorted at the start goes on, against the dicts
\* the graph holds now
next_properties ==
    /\ it.kind \in {"properties", "get_properties_from"} /\ it.pc = "running"
    /\ LET r == properties_advance(namings_by_class_name,
                                   properties_by_class_name, it.keys)
       IN Stepped(r, [it EXCEPT !.keys = r.keys])
    /\ UNCHANGED <<namings_by_class_name, properties_by_class_name, nops>>

\* next() on the generator of buildin_types
next_buildin_types ==
    /\ it.kind = "buildin_types" /\ it.pc # "done"
    /\ LET d == IF it.detached THEN it.snap ELSE namings_by_class_name
           used == IF it.pc = "new" THEN Len(d) ELSE it.used
           pos == IF it.pc = "new" THEN 1 ELSE it.pos
           r == buildin_types_advance(d, pos, used)
       IN Stepped(r, [it EXCEPT !.pos = r.pos, !.used = used])
    /\ UNCHANGED <<namings_by_class_name, properties_by_class_name, nops>>

\* next() on the generator of modules: its first next() groups the
\* namings and reads list(self.properties); the Modules are then yielded
\* one by one from a dict of its own
next_modules ==
    /\ it.kind = "modules" /\ it.pc # "done"
    /\ LET mods == IF it.pc = "new"
                   THEN modules_list(namings_by_class_name,
                                     properties_by_class_name)
                   ELSE it.mods
           r == IF mods = <<>>
                THEN [status |-> "stop", item |-> None]
                ELSE [status |-> "yield", item |-> Head(mods)]
       IN Stepped(r, [it EXCEPT !.mods = IF mods = <<>> THEN <<>> ELSE Tail(mods)])
    /\ UNCHANGED <<namings_by_class_name, properties_by_class_name, nops>>

\* PropertyList(): list number i is made anew
PropertyList_init(i) ==
    /\ pl' = [pl EXCEPT ![i] = {}]
    /\ log' = [log EXCEPT ![i] = <<>>]
    /\ UNCHANGED <<graph_vars, caller_vars, ret>>

\* PropertyList.add(naming) on list number i
add(i, naming) ==
    /\ Len(log[i]) < MaxAdds
    /\ pl' = [pl EXCEPT ![i] = PropertyList_add(pl[i], naming)]
    /\ log' = [log EXCEPT ![i] = Append(log[i], naming)]
    /\ UNCHANGED <<graph_vars, caller_vars, ret>>

\* a call that returns a value or raises, and touches neither the graph
\* nor a generator the caller holds
Returned(op, arg, status, value) ==
    /\ ret' = [op |-> op, arg |-> arg, status |-> status, value |-> value]
    /\ err' = status
    /\ last' = [op |-> op, desc |-> None, replaced |-> None]
    /\ UNCHANGED <<graph_vars, it, out, nops, prev, pl, log>>

\* PropertyGraph.get_abstract_classes()
get_abstract_classes ==
    LET r == get_abstract_classes_loop(namings_by_class_name,
                 properties_list(namings_by_class_name,
                                 properties_by_class_name), <<>>)
    IN Returned("get_abstract_classes", None, r.status, r.types_dict)

\* InterfaceGenerator.generate_abstract_class(class_naming) called on a
\* node of `properties` that is no container
InterfaceGenerator_generate_abstract_class(class_naming) ==
    /\ class_naming.naming.type # "ContainerNaming"
    /\ LET r == generate_abstract_class(class_naming)
       IN Returned("generate_abstract_class",
                   [class_naming |-> class_naming, item_naming |-> None],
                   r.status, r.template)

\* InterfaceGenerator.generate_abstract_container(class_naming,
\* item_naming) called on a container node of `properties` and the
\* registered descriptor of its item
InterfaceGenerator_generate_abstract_container(class_naming) ==
    /\ class_naming.naming.type = "ContainerNaming"
    /\ DictHas(namings_by_class_name, class_naming.naming.item_class_name)
    /\ LET item_naming == DictGet(namings_by_class_name,
                                  class_naming.naming.item_class_name)
           r == generate_abstract_container(class_naming, item_naming)
       IN Returned("generate_abstract_container",
                   [class_naming |-> class_naming, item_naming |-> item_naming],
                   r.status, r.template)

\* a class derived from the template just generated is instantiated; it
\* overrides the names in `furnished`
instantiate(furnished, plain) ==
    /\ ret # None
    /\ ret.op \in {"generate_abstract_class", "generate_abstract_container"}
    /\ err = "none"
    /\ furnished \subseteq ret.value.abstractmethods
    /\ LET r == abstract_check(ret.value, furnished, plain)
       IN Returned("instantiate",
                   [of |-> ret.arg, template |-> ret.value,
                    furnished |-> furnished, plain |-> plain],
                   r.status, r.names)

\* ProtobufGenerator.get_property_file_content(module) called on a
\* Module that `modules` has yielded
ProtobufGenerator_get_property_file_content(module) ==
    LET r == get_property_file_content(module)
    IN Returned("get_property_file_content", module, r.status, r.file_content)

\* the caller holds no generator that is still to be read
Quiet == it.pc = "done"

\* Spec: a caller that reads a sequence to its end, or lets go of it,
\* before it calls a factory or clear()
Next ==
    \/ \E a \in NamingArgs : Quiet /\ naming_getter(a[1], a[2], a[3])
    \/ \E a \in RepeatedArgs : Quiet /\ repeated(a[1], a[2], a[3])
    \/ \E a \in BuildinArgs : Quiet /\ buildin_getter(a[1], a[2])
    \/ Quiet /\ clear
    \/ \E term \in Terms : get_properties_from(term)
    \/ properties
    \/ buildin_types
    \/ modules
    \/ next_get_properties_from
    \/ next_properties_first
    \/ next_properties
    \/ next_buildin_types
    \/ next_modules

Spec == Init /\ [][Next]_vars

\* SpecLive: a caller that also calls factories and clear() while it holds
\* a generator it has read in part
NextLive ==
    \/ \E a \in NamingArgs : naming_getter(a[1], a[2], a[3])
    \/ \E a \in RepeatedArgs : repeated(a[1], a[2], a[3])
    \/ \E a \in BuildinArgs : buildin_getter(a[1], a[2])
    \/ clear
    \/ \E term \in Terms : get_properties_from(term)
    \/ properties
    \/ buildin_types
    \/ modules
    \/ next_get_properties_from
    \/ next_properties_first
    \/ next_properties
    \/ next_buildin_types
    \/ next_modules

SpecLive == Init /\ [][NextLive]_vars

\* SpecList: two PropertyLists on their own, filled by add() calls
NextList ==
    \/ \E i \in 1..2 : PropertyList_init(i)
    \/ \E i \in 1..2, naming \in ListElements : add(i, naming)

SpecList == Init /\ [][NextList]_vars

\* SpecGen: a graph is built, then read through modules and handed to the
\* generators
NextGen ==
    \/ ret = None /\ modules
    \/ next_modules
    \/ it.kind = "none" /\ get_abstract_classes
    \/ \E i \in 1..Len(namings_by_class_name) :
         LET nodes == properties_list(namings_by_class_name,
                                      properties_by_class_name)
         IN /\ it.kind = "none"
            /\ i <= Len(nodes)
            /\ InterfaceGenerator_generate_abstract_class(nodes[i])
    \/ \E i \in 1..Len(namings_by_class_name) :
         LET nodes == properties_list(namings_by_class_name,
                                      properties_by_class_name)
         IN /\ it.kind = "none"
            /\ i <= Len(nodes)
            /\ InterfaceGenerator_generate_abstract_container(nodes[i])
    \/ \E i \in 1..Len(out) :
         /\ it.kind = "modules"
         /\ ProtobufGenerator_get_property_file_content(out[i])
    \/ \E plain \in BOOLEAN :
         /\ ret # None
         /\ ret.op \in {"generate_abstract_class", "generate_abstract_container"}
         /\ err = "none"
         /\ \E furnished \in SUBSET ret.value.abstractmethods :
              instantiate(furnished, plain)

SpecGen == InitGen /\ [][NextGen]_vars

\* ------------------------------------------------------------------------
\* what the claims speak of
\* ------------------------------------------------------------------------
\* the caller has just read the sequence of `kind` to its end, no exception
\* raised and nothing else called on the graph meanwhile
Consumed(kind) ==
    /\ it.kind = kind /\ it.pc = "done" /\ it.clean
    /\ err = "none" /\ last.op = "next"

\* this step is the first next() on the generator of get_properties_from:
\* the step that evaluates the term
EvaluationStep ==
    /\ it.kind = "get_properties_from" /\ it.pc = "new"
    /\ it'.kind = "get_properties_from" /\ it'.pc # "new"

\* what a caller sees of a yielded node: its naming and the class names of
\* its sub-properties in their order
NodeView(np) ==
    LET ps == NamedProperty_properties(np) IN
    [class_name |-> ClassName(np.naming),
     value_name |-> np.naming.value_name,
     plural |-> np.naming.plural_value_name,
     properties |-> [i \in 1..Len(ps) |-> ClassName(ps[i])]]

Views(seq) == [i \in 1..Len(seq) |-> NodeView(seq[i])]

\* the class name a leaf name stands for when nothing is registered yet
LeafClass(x) == ClassName(Naming(x, None, None))

\* the node sequence a whole consumption of get_properties_from returns
\* from the present graph when evaluate() calls connect in the order calls
ResultOf(calls) ==
    LET g == evaluate([nm |-> namings_by_class_name,
                       adj |-> get_properties_from_filter(
                                   properties_by_class_name),
                       ok |-> TRUE], calls)
    IN [ok |-> g.ok, views |-> Views(properties_list(g.nm, g.adj))]

\* C1: whatever the order and multiplicity in which the edges of a term
\* reach connect(), get_properties_from returns the same node sequence
\* from the same graph: same nodes, same order, same class name, value
\* name and plural, same sub-property order.
C1_SameSequenceForAnyOrder ==
    (it.kind = "get_properties_from" /\ it.pc = "new") =>
        \A c1, c2 \in Orders(it.term.edges) :
            (ResultOf(c1).ok /\ ResultOf(c2).ok) =>
                ResultOf(c1).views = ResultOf(c2).views

\* C2 as stated: get_properties_from starts from emptied mappings, so a
\* consumed sequence holds only nodes that the term's edges name and only
\* sub-properties that are edges of the term.
C2_OnlyNodesOfTheTerm ==
    Consumed("get_properties_from") =>
        LET E == it.term.edges
            nodes == {LeafClass(e[1]) : e \in E} \cup {LeafClass(e[2]) : e \in E}
            edges == {<<LeafClass(e[1]), LeafClass(e[2])>> : e \in E}
        IN \A i \in 1..Len(out) :
             LET v == NodeView(out[i]) IN
             /\ v.class_name \in nodes
             /\ \A j \in 1..Len(v.properties) :
                    <<v.class_name, v.properties[j]>> \in edges

\* C2 as amended: get_properties_from empties neither mapping.  The step
\* that evaluates the term keeps every naming under its key and every
\* member of every adjacency list, and the consumed sequence is the whole
\* of the graph: every non-scalar node registered so far, by a factory or
\* by an earlier evaluation.
C2_NothingIsEmptied ==
    /\ [](Consumed("get_properties_from") =>
            out = properties_list(namings_by_class_name,
                                  properties_by_class_name))
    /\ [][EvaluationStep =>
            /\ \A k \in DictKeys(namings_by_class_name) :
                 /\ DictHas(namings_by_class_name', k)
                 /\ DictGet(namings_by_class_name', k)
                      = DictGet(namings_by_class_name, k)
            /\ \A k \in DOMAIN properties_by_class_name :
                 /\ k \in DOMAIN properties_by_class_name'
                 /\ properties_by_class_name[k]
                      \subseteq properties_by_class_name'[k]]_vars

\* a consumed sequence that shows a sub-property no edge of the term gives
C2_Witness ==
    /\ Consumed("get_properties_from")
    /\ \E i \in 1..Len(out) :
         \E j \in 1..Len(NodeView(out[i]).properties) :
            <<NodeView(out[i]).class_name, NodeView(out[i]).properties[j]>>
              \notin {<<LeafClass(e[1]), LeafClass(e[2])>> : e \in it.term.edges}

\* C3: get_properties_from(t) consumed twice in succession, nothing else
\* called between, returns the same sequence and leaves the same namings
\* and adjacency the second time as the first.
C3_TwiceTheSame ==
    (Consumed("get_properties_from") /\ prev.kind = "get_properties_from") =>
        /\ out = prev.out
        /\ namings_by_class_name = prev.nm
        /\ properties_by_class_name = prev.adj

\* the second of two consumptions of a term with edges
C3_Witness ==
    /\ Consumed("get_properties_from")
    /\ prev.kind = "get_properties_from"
    /\ it.term.edges # {}
    /\ Len(out) >= 2

\* the leaves of a term that an edge of it starts from or ends at
Endpoints(term) == {e[1] : e \in term.edges} \cup {e[2] : e \in term.edges}

\* the key under which _update_naming finds the node of a leaf name
NodeKey(nm, x) == IF DictHas(nm, x) THEN x ELSE LeafClass(x)

\* the class names of the nodes of a sequence
ClassNamesOf(seq) == {ClassName(seq[i].naming) : i \in 1..Len(seq)}

\* C4 as stated: after the evaluation every leaf of the term with a valid
\* name is a registered node and appears in the sequence (a scalar node
\* is registered only), also a leaf with no edge.
C4_EveryLeafRegistered ==
    Consumed("get_properties_from") =>
        \A x \in it.term.leaves :
            NamingAccepts(x, None) =>
                LET k == NodeKey(namings_by_class_name, x) IN
                /\ DictHas(namings_by_class_name, k)
                /\ DictGet(namings_by_class_name, k).type # "TypeDescriptor"
                     => k \in ClassNamesOf(out)

\* C4 as amended: after the evaluation every leaf that is an endpoint of
\* an edge of the term is a registered node and, unless the node is a
\* scalar, appears in the sequence; the evaluation registers nothing for a
\* leaf that has no edge.
C4_EveryEndpointRegistered ==
    /\ [](Consumed("get_properties_from") =>
            \A x \in Endpoints(it.term) :
                LET k == NodeKey(namings_by_class_name, x) IN
                /\ DictHas(namings_by_class_name, k)
                /\ DictGet(namings_by_class_name, k).type # "TypeDescriptor"
                     => k \in ClassNamesOf(out))
    /\ [][EvaluationStep =>
            DictKeys(namings_by_class_name') \ DictKeys(namings_by_class_name)
              \subseteq {LeafClass(x) : x \in Endpoints(it.term)}]_vars

\* a consumed sequence of a term one of whose leaves, valid and with no
\* edge, is no node of the graph
C4_Witness ==
    /\ Consumed("get_properties_from")
    /\ \E x \in it.term.leaves \ Endpoints(it.term) :
         /\ NamingAccepts(x, None)
         /\ ~DictHas(namings_by_class_name, x)
         /\ ~DictHas(namings_by_class_name, LeafClass(x))

\* C5: `properties` read to its end lists every registered non-scalar
\* node once, in ascending class-name order, and no scalar; a second read
\* with nothing between returns the same; reading changes neither the
\* namings nor the adjacency.
C5_PropertiesRead ==
    /\ [](Consumed("properties") =>
            /\ \A i \in 1..Len(out) - 1 :
                 StrLess(ClassName(out[i].naming), ClassName(out[i + 1].naming))
            /\ ClassNamesOf(out)
                 = {k \in DictKeys(namings_by_class_name) :
                      DictGet(namings_by_class_name, k).type # "TypeDescriptor"}
            /\ \A i \in 1..Len(out) :
                 /\ out[i].naming
                      = DictGet(namings_by_class_name, ClassName(out[i].naming))
                 /\ out[i].property_list
                      = AdjGet(properties_by_class_name, ClassName(out[i].naming))
            /\ prev.kind = "properties" => out = prev.out)
    /\ [][(it'.kind = "properties" /\ last'.op = "next")
            => UNCHANGED graph_vars]_vars

\* a second whole read of a graph with two ordinary nodes and a scalar
C5_Witness ==
    /\ Consumed("properties")
    /\ prev.kind = "properties"
    /\ Len(out) >= 2
    /\ \E k \in DictKeys(namings_by_class_name) :
         DictGet(namings_by_class_name, k).type = "TypeDescriptor"

\* the class names of a sequence of descriptors, in its order
ClassNameSeq(seq) == [j \in 1..Len(seq) |-> ClassName(seq[j])]

\* C6: after any add() calls the enumeration of a PropertyList holds each
\* class name added once, in ascending order; two lists given the same
\* elements, in whatever order and however often, enumerate the same class
\* names in the same order and compare equal.
C6_EnumerationSorted ==
    /\ \A i \in 1..2 :
         LET p == PropertyList_properties(pl[i]) IN
         /\ \A j \in 1..Len(p) - 1 :
              StrLess(ClassName(p[j]), ClassName(p[j + 1]))
         /\ {ClassName(p[j]) : j \in 1..Len(p)}
              = {ClassName(log[i][j]) : j \in 1..Len(log[i])}
    /\ {log[1][j] : j \in 1..Len(log[1])} = {log[2][j] : j \in 1..Len(log[2])}
         => /\ ClassNameSeq(PropertyList_properties(pl[1]))
                 = ClassNameSeq(PropertyList_properties(pl[2]))
            /\ PropertyList_eq(pl[1], pl[2])

\* two lists given the same elements of two class names or more, one of
\* them with a repeated add, the other in another order
C6_Witness ==
    /\ {log[1][j] : j \in 1..Len(log[1])} = {log[2][j] : j \in 1..Len(log[2])}
    /\ Len(log[1]) = 3 /\ Len(log[2]) = 2
    /\ log[1][1] # log[2][1]
    /\ Len(PropertyList_properties(pl[1])) = 2

\* C7: a leaf met during evaluation whose class name is already registered
\* leaves the registered descriptor as it is; N, R and T put their
\* descriptor under its class name whatever was registered there.
C7_CollisionPolicy ==
    /\ []((last.op \in {"N", "R", "T"} /\ err = "none") =>
            /\ DictHas(namings_by_class_name, ClassName(last.desc))
            /\ DictGet(namings_by_class_name, ClassName(last.desc)) = last.desc)
    /\ [][EvaluationStep =>
            \A x \in Endpoints(it.term) :
                DictHas(namings_by_class_name, LeafClass(x)) =>
                    DictGet(namings_by_class_name', LeafClass(x))
                      = DictGet(namings_by_class_name, LeafClass(x))]_vars

\* a factory has just replaced a different descriptor of the same class
\* name
C7_Witness ==
    /\ last.op \in {"N", "R", "T"} /\ err = "none"
    /\ last.replaced # None
    /\ last.replaced # last.desc

\* C8: an operation that ends in the rejection of a malformed name leaves
\* namings and adjacency as they were before it.
C8_RejectionChangesNothing ==
    [][err' = "ValueError" => UNCHANGED graph_vars]_vars

\* C9: a Naming that N has made has a name, and a plural, that match
\* [a-z][a-z_]* as a whole.
C9_WholeNameMatches ==
    (last.op = "N" /\ err = "none") =>
        /\ FullMatch(last.desc.value_name)
        /\ FullMatch(last.desc.plural_value_name)

\* C10: no call ends in an exception other than the rejection of a
\* malformed name, also when a sequence is read partly before and partly
\* after other calls.
C10_OnlyRejectionsRaise ==
    err \in {"none", "ValueError"}

\* the scalar descriptors registered, as the dict holds them
Scalars(nm) == {nm[i].v : i \in {j \in 1..Len(nm) : nm[j].v.type = "TypeDescriptor"}}

\* C11: the evaluation of a term leaves every scalar registered before it
\* as it was; buildin_types read to its end lists the registered scalars,
\* each once; no scalar is a node of the sequence of `properties` or of
\* get_properties_from.
C11_ScalarsStayListed ==
    /\ [][EvaluationStep =>
            \A d \in Scalars(namings_by_class_name) :
                /\ DictHas(namings_by_class_name', ClassName(d))
                /\ DictGet(namings_by_class_name', ClassName(d)) = d]_vars
    /\ [](Consumed("buildin_types") =>
            /\ {out[i] : i \in 1..Len(out)} = Scalars(namings_by_class_name)
            /\ Len(out) = Cardinality(Scalars(namings_by_class_name)))
    /\ []((it.kind \in {"properties", "get_properties_from"} /\ it.clean) =>
            \A i \in 1..Len(out) :
                /\ out[i].naming.type # "TypeDescriptor"
                /\ out[i].naming \notin Scalars(namings_by_class_name))

\* buildin_types read to its end lists a scalar that is a sub-property in
\* the graph: a term that uses it has been evaluated
C11_Witness ==
    /\ Consumed("buildin_types")
    /\ Len(out) >= 1
    /\ \E k \in DOMAIN properties_by_class_name :
         out[1] \in properties_by_class_name[k]

\* the descriptors registered that are no scalars
Nodes(nm) == {nm[i].v : i \in {j \in 1..Len(nm) : nm[j].v.type # "TypeDescriptor"}}

\* C12 as stated: every non-scalar node of the graph is a member of
\* exactly one of the Modules that `modules` yields.
C12_EveryNodeInOneModule ==
    Consumed("modules") =>
        \A d \in Nodes(namings_by_class_name) :
            Cardinality({i \in 1..Len(out) : d \in out[i].property_list}) = 1

\* C12 as amended: `modules` yields one Module for each module name that
\* some non-scalar node declares; a node that declares a module is a
\* member of the Module of that name and of no other, a node that declares
\* none is a member of no Module; every member of a Module is a node of the
\* graph; and the lookup of each Module resolves the class name of every
\* non-scalar node, declared module or not.
C12_ModulesGroupDeclared ==
    Consumed("modules") =>
        /\ \A i, j \in 1..Len(out) :
             out[i].module_name = out[j].module_name => i = j
        /\ \A d \in Nodes(namings_by_class_name) :
             \A i \in 1..Len(out) :
                d \in out[i].property_list
                  <=> (d.module_name # None /\ d.module_name = out[i].module_name)
        /\ \A d \in Nodes(namings_by_class_name) :
             d.module_name # None =>
                \E i \in 1..Len(out) : out[i].module_name = d.module_name
        /\ \A i \in 1..Len(out) :
             /\ out[i].property_list \subseteq Nodes(namings_by_class_name)
             /\ out[i].property_list # {}
             /\ \A d \in Nodes(namings_by_class_name) :
                  LET np == Module_get_named_property(out[i], ClassName(d)) IN
                  /\ np # None
                  /\ np.naming = d
                  /\ np.property_list
                       = AdjGet(properties_by_class_name, ClassName(d))

\* two Modules yielded from a graph that also has a node of no module
C12_Witness ==
    /\ Consumed("modules")
    /\ Len(out) = 2
    /\ \E d \in Nodes(namings_by_class_name) : d.module_name = None
    /\ \E i \in 1..2 : Cardinality(out[i].property_list) = 2

\* C13: get_abstract_classes returns a mapping with as many entries as
\* `properties` has nodes, each node's descriptor under the node's
\* interface name, made by generate_abstract_container for a container and
\* by generate_abstract_class for any other node.
C13_OneEntryPerNode ==
    last.op = "get_abstract_classes" =>
        LET nodes == properties_list(namings_by_class_name,
                                     properties_by_class_name)
        IN /\ err = "none"
           /\ Len(ret.value) = Len(nodes)
           /\ \A i \in 1..Len(nodes) :
                LET iname == Naming_interface_name(nodes[i].naming) IN
                /\ DictHas(ret.value, iname)
                /\ DictGet(ret.value, iname).name = iname

\* the value names of a node's sub-properties
SubPropertyNames(class_naming) ==
    LET subs == NamedProperty_properties(class_naming)
    IN {subs[i].value_name : i \in 1..Len(subs)}

\* C14: generate_abstract_class returns, for a node with N sub-properties,
\* a template that requires exactly N names, the value names of the
\* sub-properties; generate_abstract_container returns a template that
\* requires exactly one name, the plural value name of the item.
C14_OneAccessorPerSubProperty ==
    ret # None =>
        /\ ret.op = "generate_abstract_class" =>
             /\ err = "none"
             /\ ret.value.abstractmethods = SubPropertyNames(ret.arg.class_naming)
             /\ Cardinality(ret.value.abstractmethods)
                  = Len(NamedProperty_properties(ret.arg.class_naming))
        /\ ret.op = "generate_abstract_container" =>
             /\ err = "none"
             /\ ret.value.abstractmethods = {ret.arg.item_naming.plural_value_name}

\* the names the template of an instantiation stands for: the value names
\* of the node's sub-properties, or the plural of the container's item
RequiredOf(arg) ==
    IF arg.class_naming.naming.type = "ContainerNaming"
    THEN {arg.item_naming.plural_value_name}
    ELSE SubPropertyNames(arg.class_naming)

\* C15 as stated: the instantiation of a class derived from a generated
\* interface succeeds exactly when the class furnishes every required
\* name, and fails naming the missing ones in ascending order otherwise.
C15_FailsIffAccessorMissing ==
    (ret # None /\ ret.op = "instantiate") =>
        LET missing == RequiredOf(ret.arg.of) \ ret.arg.furnished IN
        /\ err = "none" <=> missing = {}
        /\ err # "none" => err = "TypeError" /\ ret.value = SortStr(missing)

\* C15 as amended: the check is made for a class whose instances
\* object.__new__ creates; a class with another base that brings its own
\* __new__ is instantiated whatever it furnishes.
C15_FailsIffMissingAndChecked ==
    (ret # None /\ ret.op = "instantiate") =>
        LET missing == RequiredOf(ret.arg.of) \ ret.arg.furnished IN
        /\ ret.arg.plain =>
             /\ err = "none" <=> missing = {}
             /\ err # "none" =>
                  /\ err = "TypeError"
                  /\ ret.value = SortStr(missing)
                  /\ \A i \in 1..Len(ret.value) - 1 :
                       StrLess(ret.value[i], ret.value[i + 1])
        /\ ~ret.arg.plain => err = "none"

\* a class that derives from the interface alone and furnishes one of
\* three required names has failed to instantiate
C15_Witness ==
    /\ ret # None /\ ret.op = "instantiate"
    /\ ret.arg.plain
    /\ Cardinality(ret.arg.template.abstractmethods) = 3
    /\ Cardinality(ret.arg.furnished) = 1
    /\ err = "TypeError"
    /\ Len(ret.value) = 2

\* a rendering has returned or raised
Rendered == ret # None /\ ret.op = "get_property_file_content"

\* the members of the rendered Module of one kind
MembersOf(module, type) ==
    LET members == Module_properties(module)
    IN {members[i] : i \in {j \in 1..Len(members) : members[j].type = type}}

\* the sub-properties the graph holds for a node, in class-name order
SubsOf(d) ==
    LET nps == properties_list(namings_by_class_name,
                                      properties_by_class_name)
        at == {i \in 1..Len(nps) :
                  ClassName(nps[i].naming) = ClassName(d)}
    IN IF at = {} THEN <<>>
       ELSE NamedProperty_properties(nps[CHOOSE i \in at : TRUE])

\* the scalar sub-properties of a node
ScalarSubsOf(d) ==
    LET subs == SubsOf(d)
    IN {subs[i] : i \in {j \in 1..Len(subs) : subs[j].type = "TypeDescriptor"}}

\* the type a field made from sub-property d is given: the scalar first
\* in class-name order among d's sub-properties, else d's own class name
\* without the module
FieldTypeOf(d) ==
    IF ScalarSubsOf(d) # {} THEN ClassName(MinByClassName(ScalarSubsOf(d)))
    ELSE d.class_name

\* the positions of the line that opens the message block of a name
BlocksOf(lines, name) ==
    {i \in 1..Len(lines) : lines[i] = Line_message(name)}

\* the content has exactly one block of that name, and it is this field
OneBlockWith(lines, name, field) ==
    /\ Cardinality(BlocksOf(lines, name)) = 1
    /\ \A i \in BlocksOf(lines, name) :
         /\ i + 2 <= Len(lines)
         /\ lines[i + 1] = field
         /\ lines[i + 2] = Line_close

StatedFieldTypeOf(module, d) ==
    IF Len(SubsOf(d)) = 1 /\ SubsOf(d)[1].type = "TypeDescriptor"
    THEN ClassName(SubsOf(d)[1])
    ELSE IF d.module_name = module.module_name THEN d.class_name
    ELSE ClassName(d)

\* C17: in the message block of an ordinary member the fields follow the
\* sub-properties in class-name order, numbered by position, and a field
\* whose sub-property is no single scalar leaf has the module-stripped
\* class name when the sub-property is of the rendered module and the
\* fully qualified one when it is of another module.
C17_FieldTypeQualifiedAcrossModules ==
    (Rendered /\ ret.status = "none") =>
        \A n \in MembersOf(ret.arg, "Naming") :
            \A i \in BlocksOf(ret.value, n.class_name) :
                LET subs == SubsOf(n) IN
                /\ i + Len(subs) + 1 <= Len(ret.value)
                /\ \A j \in 1..Len(subs) :
                     ret.value[i + j] =
                         Line_required(StatedFieldTypeOf(ret.arg, subs[j]),
                                       subs[j].value_name, j)
                /\ ret.value[i + Len(subs) + 1] = Line_close

C19_MemberWithoutSubPropertiesSkipped ==
    Rendered =>
        \A n \in MembersOf(ret.arg, "Naming")
                 \cup MembersOf(ret.arg, "ContainerNaming") :
            SubsOf(n) = <<>> =>
                /\ ret.status = "none"
                /\ BlocksOf(ret.value, n.class_name) = {}

\* the module names, other than the rendered module's own, that the
\* direct sub-properties of its members declare
ImportedBy(module) ==
    LET members == MembersOf(module, "Naming")
                   \cup MembersOf(module, "ContainerNaming")
    IN UNION { {SubsOf(n)[i].module_name : i \in 1..Len(SubsOf(n))}
               : n \in members } \ {None, module.module_name}

\* C20: the import lines are one line for each such module name, in
\* ascending order, and they stand right after the syntax and the package
\* line, before every other line.
C20_ImportsSortedAfterPackage ==
    (Rendered /\ ret.status = "none") =>
        LET lines == ret.value
            count == Cardinality(ImportedBy(ret.arg))
        IN /\ Len(lines) >= 2 + count
           /\ lines[1] = Line_syntax
           /\ lines[2] = Line_package(ret.arg.module_name)
           /\ \A k \in 1..Len(lines) :
                lines[k].line = "import" <=> (2 < k /\ k <= 2 + count)
           /\ {lines[2 + j].name : j \in 1..count} = ImportedBy(ret.arg)
           /\ \A j \in 1..(count - 1) :
                StrLess(lines[2 + j].name, lines[3 + j].name)

\* a module has been rendered whose members have sub-properties of two
\* other modules and of the module itself
C20_Witness ==
    /\ Rendered /\ ret.status = "none"
    /\ Cardinality(ImportedBy(ret.arg)) = 2
    /\ \E n \in MembersOf(ret.arg, "ContainerNaming") :
         \E i \in 1..Len(SubsOf(n)) :
             SubsOf(n)[i].module_name = ret.arg.module_name
    /\ \E k \in 1..Len(ret.value) : ret.value[k].line = "message"

\* ------------------------------------------------------------------------
\* Naming.plural applied to the names Naming accepts
\* ------------------------------------------------------------------------
\* the characters the words are made of: a b c h s x y _
PluralLetters == {97, 98, 99, 104, 115, 120, 121, 95}

RECURSIVE WordsOfLen(_)
WordsOfLen(n) ==
    IF n = 0 THEN {<<>>}
    ELSE {Append(w, c) : w \in WordsOfLen(n - 1), c \in PluralLetters}

\* the names of at most MaxWordLen characters that are [a-z][a-z_]*
PluralWords ==
    {w \in UNION {WordsOfLen(n) : n \in 1..MaxWordLen} : FullMatch(w)}

\* Naming(word): plural_value_name is Naming.plural(word), no plural
\* being given
plural(word) ==
    Returned("plural", word, "none", Naming(word, None, None).plural_value_name)

NextPlural == \E word \in PluralWords : plural(word)

SpecPlural == Init /\ [][NextPlural]_vars

\* the plural C21 states for a word
StatedPlural(word) ==
    LET n == Len(word)
        vowels == {97, 101, 105, 111, 117}
    IN IF word[n] \in {120, 115} THEN word \o <<101, 115>>
       ELSE IF n >= 2 /\ word[n] = 121 /\ IsLower(word[n - 1])
               /\ word[n - 1] \notin vowels
       THEN SubSeq(word, 1, n - 1) \o <<105, 101, 115>>
       ELSE IF n >= 2 /\ word[n] = 121 /\ word[n - 1] \in vowels
       THEN word \o <<115>>
       ELSE IF n >= 2 /\ word[n] = 104 /\ word[n - 1] \in {115, 99}
       THEN word \o <<101, 115>>
       ELSE word \o <<115>>

\* C21: the plural of a word given without one is word + 'es' after 'x'
\* or 's', the word with 'y' replaced by 'ies' after a consonant and 'y',
\* word + 's' after a vowel and 'y', word + 'es' after 'sh' or 'ch', and
\* word + 's' otherwise.
C21_PluralByRule ==
    (ret # None /\ ret.op = "plural") => ret.value = StatedPlural(ret.arg)

\* the graph holds the edge x -> y of a term: both leaves are nodes and
\* the node of y is in the adjacency list of the node of x
HoldsEdge(nm, adj, x, y) ==
    /\ DictHas(nm, NodeKey(nm, x))
    /\ DictHas(nm, NodeKey(nm, y))
    /\ LET source == ClassName(DictGet(nm, NodeKey(nm, x)))
           sink == ClassName(DictGet(nm, NodeKey(nm, y)))
       IN /\ source \in DOMAIN adj
          /\ \E d \in adj[source] : ClassName(d) = sink

\* C22: once get_properties_from(term) has been called the graph holds
\* the edges of term, also while the sequence the call returned has not
\* been iterated.
C22_EvaluatedAtCall ==
    (it.kind = "get_properties_from" /\ it.pc = "new") =>
        \A e \in it.term.edges :
            (\A i \in 1..2 : DictHas(namings_by_class_name, e[i])
                             \/ NamingAccepts(e[i], None)) =>
                HoldsEdge(namings_by_class_name, properties_by_class_name,
                          e[1], e[2])

\* C23: after any factory calls, evaluations and clear, every key of the
\* namings mapping is the fully qualified class name of the descriptor
\* under it, every key of the adjacency mapping is a key of namings, and
\* every member of an adjacency list has a class name that is a key of
\* namings.
C23_GraphWellFormed ==
    /\ \A i \in 1..Len(namings_by_class_name) :
         namings_by_class_name[i].k = ClassName(namings_by_class_name[i].v)
    /\ \A k \in DOMAIN properties_by_class_name :
         /\ DictHas(namings_by_class_name, k)
         /\ \A d \in properties_by_class_name[k] :
              DictHas(namings_by_class_name, ClassName(d))

\* an evaluation has added an edge between a node a factory registered
\* under a module and a node the evaluation registered itself
C23_Witness ==
    /\ last.op = "next" /\ it.kind = "get_properties_from"
    /\ \E i \in 1..Len(namings_by_class_name) :
         namings_by_class_name[i].v.module_name # None
    /\ \E k \in DOMAIN properties_by_class_name :
         properties_by_class_name[k] # {}
    /\ Len(namings_by_class_name) >= 3

====
